---- MODULE Spec2Model ----
(***************************************************************************)
(* Model of farm/views.py: the Django REST Framework views over Farm,      *)
(* Motor and Valve.  The module defines FarmListCreateView and             *)
(* FarmDetailView twice; Python binds a class name to the last class       *)
(* statement executed, so after the module is loaded the names denote the  *)
(* definitions of lines 93-105.  The definitions of lines 28-79 are kept   *)
(* here under the suffix _shadowed.                                        *)
(***************************************************************************)
EXTENDS Integers, FiniteSets, Sequences, TLC

\* ------------------------------------------------------------------ bounds
MaxFarms == 2
MaxMotors == 1
MaxValves == 1

\* ---------------------------------------------------------------- identity
Users == {"admin1", "manager1", "user1"}
Anonymous == "anonymous"
Callers == Users \cup {Anonymous}

role(u) ==
    CASE u = "admin1" -> "admin"
      [] u = "manager1" -> "manager"
      [] OTHER -> "user"

NoValue == "none"
FarmIds == 1..MaxFarms
MotorIds == 1..MaxMotors
ValveIds == 1..MaxValves
\* kwargs['farm_id'] / kwargs['motor_id']: any id a URL can carry, among them
\* one that no row ever has.
PathFarmIds == 1..(MaxFarms + 1)
PathMotorIds == 1..(MaxMotors + 1)

VARIABLES farms, motors, valves, nextFarm, nextMotor, nextValve, last

vars == <<farms, motors, valves, nextFarm, nextMotor, nextValve, last>>
store == <<farms, motors, valves, nextFarm, nextMotor, nextValve>>

\* ------------------------------------------------------------ data store
\* Farm rows [id, owner]; Motor rows [id, farm]; Valve rows [id, motor].
Farm_objects_all == farms

FarmOf(id) == CHOOSE f \in farms : f.id = id
MotorOf(id) == CHOOSE m \in motors : m.id = id
ValveOf(id) == CHOOSE v \in valves : v.id = id

\* farm__user / motor__farm__user lookups of the ORM
Motor_farm_user(m) == FarmOf(m.farm).owner
Valve_motor_farm_user(v) == Motor_farm_user(MotorOf(v.motor))

\* ------------------------------------------------------------- permissions
IsAuthenticated(user) == user # Anonymous

IsAdminOrManagerOrOwner_has_object_permission(user, obj) ==
    IF role(user) \in {"admin", "manager"}
    THEN TRUE
    ELSE obj.owner = user

\* As permission_classes, with IsAuthenticated left off one view.
permission_classes_open(view) ==
    IF view = "MotorListCreateView" THEN {} ELSE {"IsAuthenticated"}

\* The permission_classes attribute of each view class, as bound after load.
permission_classes(view) ==
    CASE view = "FarmListCreateView" -> {"IsAuthenticated"}
      [] view = "FarmDetailView" -> {"IsAuthenticated"}
      [] view = "MotorListCreateView" -> {"IsAuthenticated"}
      [] view = "MotorDetailView" -> {"IsAuthenticated"}
      [] view = "ValveListCreateView" -> {"IsAuthenticated"}
      [] view = "ValveDetailView" -> {"IsAuthenticated"}

permission_classes_shadowed(view) ==
    {"IsAuthenticated", "IsAdminOrManagerOrOwner"}

\* APIView.initial: every permission class must grant has_permission;
\* IsAdminOrManagerOrOwner inherits BasePermission.has_permission (True).
check_permissions(view, user) ==
    \A p \in permission_classes(view) :
        p = "IsAuthenticated" => IsAuthenticated(user)

check_object_permissions(classes, user, obj) ==
    \A p \in classes :
        p = "IsAdminOrManagerOrOwner" =>
            IsAdminOrManagerOrOwner_has_object_permission(user, obj)

\* --------------------------------------------------------------- querysets
FarmListCreateView_get_queryset_shadowed(user) ==
    IF role(user) \in {"admin", "manager"}
    THEN Farm_objects_all
    ELSE {f \in farms : f.owner = user}

FarmListCreateView_get_queryset(user) ==
    {f \in farms : f.owner = user}

FarmDetailView_get_queryset_shadowed(user) ==
    IF role(user) \in {"admin", "manager"}
    THEN Farm_objects_all
    ELSE {f \in farms : f.owner = user}

\* As FarmDetailView_get_queryset, without the owner filter.
FarmDetailView_get_queryset_all(user) == Farm_objects_all

FarmDetailView_get_queryset(user) ==
    {f \in farms : f.owner = user}

\* As MotorListCreateView_get_queryset, with the Farm views' role bypass.
MotorListCreateView_get_queryset_bypass(user, farm_id) ==
    IF role(user) \in {"admin", "manager"}
    THEN {m \in motors : m.farm = farm_id}
    ELSE {m \in motors : m.farm = farm_id /\ Motor_farm_user(m) = user}

MotorListCreateView_get_queryset(user, farm_id) ==
    {m \in motors : m.farm = farm_id /\ Motor_farm_user(m) = user}

MotorDetailView_get_queryset(user, farm_id) ==
    {m \in motors : m.farm = farm_id /\ Motor_farm_user(m) = user}

\* As ValveListCreateView_get_queryset, without the lookup through motor
\* and farm to the owner.
ValveListCreateView_get_queryset_direct(user, motor_id) ==
    {v \in valves : v.motor = motor_id}

ValveListCreateView_get_queryset(user, motor_id) ==
    {v \in valves : v.motor = motor_id /\ Valve_motor_farm_user(v) = user}

ValveDetailView_get_queryset(user, motor_id) ==
    {v \in valves : v.motor = motor_id /\ Valve_motor_farm_user(v) = user}

Ids(rows) == {r.id : r \in rows}

\* ------------------------------------------------------------- get_object
\* As FarmDetailView_get_object, but looking pk up among all Farms and
\* leaving the decision to the object permission.
FarmDetailView_get_object_unscoped(user, pk) ==
    IF pk \notin Ids(Farm_objects_all) THEN 404
    ELSE IF ~IsAdminOrManagerOrOwner_has_object_permission(user, FarmOf(pk))
    THEN 403
    ELSE 200

\* GenericAPIView.get_object as each detail view inherits it: look pk up in
\* get_queryset() (404 when absent), then check_object_permissions (403).
FarmDetailView_get_object(user, pk) ==
    IF pk \notin Ids(FarmDetailView_get_queryset(user)) THEN 404
    ELSE IF ~check_object_permissions(permission_classes("FarmDetailView"),
                                      user, FarmOf(pk))
    THEN 403
    ELSE 200

FarmDetailView_get_object_shadowed(user, pk) ==
    IF pk \notin Ids(FarmDetailView_get_queryset_shadowed(user)) THEN 404
    ELSE IF ~check_object_permissions(permission_classes_shadowed("FarmDetailView"),
                                      user, FarmOf(pk))
    THEN 403
    ELSE 200

MotorDetailView_get_object(user, farm_id, pk) ==
    IF pk \notin Ids(MotorDetailView_get_queryset(user, farm_id)) THEN 404
    ELSE 200

ValveDetailView_get_object(user, motor_id, pk) ==
    IF pk \notin Ids(ValveDetailView_get_queryset(user, motor_id)) THEN 404
    ELSE 200

\* ---------------------------------------------------------------- response
\* What the last request was and how it was answered.  queries counts the
\* queryset evaluations and row writes the handler performed.
Resp(view, method, user, parent, pk, owner, status, body, queries) ==
    [view |-> view, method |-> method, caller |-> user, parent |-> parent,
     pk |-> pk, owner |-> owner, status |-> status, body |-> body,
     queries |-> queries]

\* APIView.permission_denied for a request without credentials: 401, or 403
\* when the project's first authentication class sends no WWW-Authenticate
\* header.  The settings decide; both are possible.
NotAuthenticatedStatus == {401, 403}

NotAuthenticated(view, method, user, parent, pk) ==
    /\ \E st \in NotAuthenticatedStatus :
           last' = Resp(view, method, user, parent, pk, NoValue, st, {}, 0)
    /\ UNCHANGED store

\* No request is being served.
NoResponse == Resp("none", "none", NoValue, 0, 0, NoValue, 0, {}, 0)

Init ==
    /\ farms = {}
    /\ motors = {}
    /\ valves = {}
    /\ nextFarm = 1
    /\ nextMotor = 1
    /\ nextValve = 1
    /\ last = NoResponse

\* -------------------------------------------------------------- serializers
\* ModelSerializers mirroring the rows field for field: a foreign key is a
\* required writable field on create and must reference an existing row.
FarmSerializer_is_valid(owner, partial) ==
    IF owner = NoValue THEN partial ELSE owner \in Users

MotorSerializer_is_valid(farm, partial) ==
    IF farm = 0 THEN partial ELSE farm \in Ids(farms)

ValveSerializer_is_valid(motor, partial) ==
    IF motor = 0 THEN partial ELSE motor \in Ids(motors)

\* on_delete of Motor.farm and Valve.motor: deleting a parent deletes its rows.
CascadeMotors(farm_ids) == {m \in motors : m.farm \in farm_ids}
CascadeValves(motor_ids) == {v \in valves : v.motor \in motor_ids}

\* ------------------------------------------------------------ perform_create
\* The owner the new Farm row is saved with.
FarmListCreateView_perform_create_shadowed(user, owner) ==
    IF role(user) \in {"admin", "manager"}
    THEN IF owner # NoValue THEN owner ELSE user
    ELSE user

\* CreateModelMixin.perform_create, inherited: serializer.save() with the
\* validated payload and nothing added.
FarmListCreateView_perform_create(user, owner) == owner

\* ------------------------------------------------------------ Farm endpoints
FarmList ==
    /\ last = NoResponse
    /\ \E user \in Callers :
        IF ~check_permissions("FarmListCreateView", user)
        THEN NotAuthenticated("FarmListCreateView", "GET", user, 0, 0)
        ELSE /\ last' = Resp("FarmListCreateView", "GET", user, 0, 0, NoValue, 200,
                             Ids(FarmListCreateView_get_queryset(user)), 1)
             /\ UNCHANGED store

FarmCreate ==
    /\ last = NoResponse
    /\ \E user \in Callers, owner \in Users \cup {NoValue} :
        /\ nextFarm <= MaxFarms
        /\ IF ~check_permissions("FarmListCreateView", user)
           THEN NotAuthenticated("FarmListCreateView", "POST", user, 0, 0)
           ELSE IF ~FarmSerializer_is_valid(owner, FALSE)
           THEN /\ last' = Resp("FarmListCreateView", "POST", user, 0, 0, owner,
                                400, {}, 0)
                /\ UNCHANGED store
           ELSE /\ farms' = farms \cup
                      {[id |-> nextFarm,
                        owner |-> FarmListCreateView_perform_create(user, owner)]}
                /\ nextFarm' = nextFarm + 1
                /\ last' = Resp("FarmListCreateView", "POST", user, 0, nextFarm, owner,
                                201, {nextFarm}, 1)
                /\ UNCHANGED <<motors, valves, nextMotor, nextValve>>

FarmRetrieve ==
    /\ last = NoResponse
    /\ \E user \in Callers, pk \in FarmIds :
        IF ~check_permissions("FarmDetailView", user)
        THEN NotAuthenticated("FarmDetailView", "GET", user, 0, pk)
        ELSE /\ last' = Resp("FarmDetailView", "GET", user, 0, pk, NoValue,
                             FarmDetailView_get_object(user, pk),
                             IF FarmDetailView_get_object(user, pk) = 200
                             THEN {pk} ELSE {}, 1)
             /\ UNCHANGED store

\* PUT carries the owner, PATCH (partial) may leave it out.
FarmUpdate ==
    /\ last = NoResponse
    /\ \E user \in Callers, pk \in FarmIds, owner \in Users \cup {NoValue} :
        LET method == IF owner = NoValue THEN "PATCH" ELSE "PUT"
        IN  IF ~check_permissions("FarmDetailView", user)
            THEN NotAuthenticated("FarmDetailView", method, user, 0, pk)
            ELSE IF FarmDetailView_get_object(user, pk) # 200
            THEN /\ last' = Resp("FarmDetailView", method, user, 0, pk, NoValue,
                                 FarmDetailView_get_object(user, pk), {}, 1)
                 /\ UNCHANGED store
            ELSE IF ~FarmSerializer_is_valid(owner, owner = NoValue)
            THEN /\ last' = Resp("FarmDetailView", method, user, 0, pk, NoValue,
                                 400, {}, 1)
                 /\ UNCHANGED store
            ELSE /\ farms' = (farms \ {FarmOf(pk)}) \cup
                       {[id |-> pk,
                         owner |-> IF owner = NoValue THEN FarmOf(pk).owner ELSE owner]}
                 /\ last' = Resp("FarmDetailView", method, user, 0, pk, NoValue,
                                 200, {pk}, 2)
                 /\ UNCHANGED <<motors, valves, nextFarm, nextMotor, nextValve>>

FarmDestroy ==
    /\ last = NoResponse
    /\ \E user \in Callers, pk \in FarmIds :
        IF ~check_permissions("FarmDetailView", user)
        THEN NotAuthenticated("FarmDetailView", "DELETE", user, 0, pk)
        ELSE IF FarmDetailView_get_object(user, pk) # 200
        THEN /\ last' = Resp("FarmDetailView", "DELETE", user, 0, pk, NoValue,
                             FarmDetailView_get_object(user, pk), {}, 1)
             /\ UNCHANGED store
        ELSE /\ farms' = farms \ {FarmOf(pk)}
             /\ motors' = motors \ CascadeMotors({pk})
             /\ valves' = valves \ CascadeValves(Ids(CascadeMotors({pk})))
             /\ last' = Resp("FarmDetailView", "DELETE", user, 0, pk, NoValue,
                             204, {}, 2)
             /\ UNCHANGED <<nextFarm, nextMotor, nextValve>>

\* ----------------------------------------------------------- Motor endpoints
MotorList ==
    /\ last = NoResponse
    /\ \E user \in Callers, farm_id \in PathFarmIds :
        IF ~check_permissions("MotorListCreateView", user)
        THEN NotAuthenticated("MotorListCreateView", "GET", user, farm_id, 0)
        ELSE /\ last' = Resp("MotorListCreateView", "GET", user, farm_id, 0, NoValue,
                             200, Ids(MotorListCreateView_get_queryset(user, farm_id)), 1)
             /\ UNCHANGED store

\* The view defines no perform_create: the row's farm is the payload's farm
\* field; the handler reads neither kwargs['farm_id'] nor the farm's owner.
MotorCreate ==
    /\ last = NoResponse
    /\ \E user \in Callers, farm_id \in PathFarmIds, farm \in FarmIds \cup {0} :
        /\ nextMotor <= MaxMotors
        /\ IF ~check_permissions("MotorListCreateView", user)
           THEN NotAuthenticated("MotorListCreateView", "POST", user, farm_id, 0)
           ELSE IF ~MotorSerializer_is_valid(farm, FALSE)
           THEN /\ last' = Resp("MotorListCreateView", "POST", user, farm_id, 0,
                                NoValue, 400, {}, 0)
                /\ UNCHANGED store
           ELSE /\ motors' = motors \cup {[id |-> nextMotor, farm |-> farm]}
                /\ nextMotor' = nextMotor + 1
                /\ last' = Resp("MotorListCreateView", "POST", user, farm_id, nextMotor,
                                NoValue, 201, {nextMotor}, 1)
                /\ UNCHANGED <<farms, valves, nextFarm, nextValve>>

MotorRetrieve ==
    /\ last = NoResponse
    /\ \E user \in Callers, farm_id \in PathFarmIds, pk \in MotorIds :
        IF ~check_permissions("MotorDetailView", user)
        THEN NotAuthenticated("MotorDetailView", "GET", user, farm_id, pk)
        ELSE /\ last' = Resp("MotorDetailView", "GET", user, farm_id, pk, NoValue,
                             MotorDetailView_get_object(user, farm_id, pk),
                             IF MotorDetailView_get_object(user, farm_id, pk) = 200
                             THEN {pk} ELSE {}, 1)
             /\ UNCHANGED store

MotorUpdate ==
    /\ last = NoResponse
    /\ \E user \in Callers, farm_id \in PathFarmIds, pk \in MotorIds,
       farm \in FarmIds \cup {0} :
        LET method == IF farm = 0 THEN "PATCH" ELSE "PUT"
        IN  IF ~check_permissions("MotorDetailView", user)
            THEN NotAuthenticated("MotorDetailView", method, user, farm_id, pk)
            ELSE IF MotorDetailView_get_object(user, farm_id, pk) # 200
            THEN /\ last' = Resp("MotorDetailView", method, user, farm_id, pk, NoValue,
                                 MotorDetailView_get_object(user, farm_id, pk), {}, 1)
                 /\ UNCHANGED store
            ELSE IF ~MotorSerializer_is_valid(farm, farm = 0)
            THEN /\ last' = Resp("MotorDetailView", method, user, farm_id, pk, NoValue,
                                 400, {}, 1)
                 /\ UNCHANGED store
            ELSE /\ motors' = (motors \ {MotorOf(pk)}) \cup
                       {[id |-> pk,
                         farm |-> IF farm = 0 THEN MotorOf(pk).farm ELSE farm]}
                 /\ last' = Resp("MotorDetailView", method, user, farm_id, pk, NoValue,
                                 200, {pk}, 2)
                 /\ UNCHANGED <<farms, valves, nextFarm, nextMotor, nextValve>>

MotorDestroy ==
    /\ last = NoResponse
    /\ \E user \in Callers, farm_id \in PathFarmIds, pk \in MotorIds :
        IF ~check_permissions("MotorDetailView", user)
        THEN NotAuthenticated("MotorDetailView", "DELETE", user, farm_id, pk)
        ELSE IF MotorDetailView_get_object(user, farm_id, pk) # 200
        THEN /\ last' = Resp("MotorDetailView", "DELETE", user, farm_id, pk, NoValue,
                             MotorDetailView_get_object(user, farm_id, pk), {}, 1)
             /\ UNCHANGED store
        ELSE /\ motors' = motors \ {MotorOf(pk)}
             /\ valves' = valves \ CascadeValves({pk})
             /\ last' = Resp("MotorDetailView", "DELETE", user, farm_id, pk, NoValue,
                             204, {}, 2)
             /\ UNCHANGED <<farms, nextFarm, nextMotor, nextValve>>

\* ----------------------------------------------------------- Valve endpoints
ValveList ==
    /\ last = NoResponse
    /\ \E user \in Callers, motor_id \in PathMotorIds :
        IF ~check_permissions("ValveListCreateView", user)
        THEN NotAuthenticated("ValveListCreateView", "GET", user, motor_id, 0)
        ELSE /\ last' = Resp("ValveListCreateView", "GET", user, motor_id, 0, NoValue,
                             200, Ids(ValveListCreateView_get_queryset(user, motor_id)), 1)
             /\ UNCHANGED store

ValveCreate ==
    /\ last = NoResponse
    /\ \E user \in Callers, motor_id \in PathMotorIds, motor \in MotorIds \cup {0} :
        /\ nextValve <= MaxValves
        /\ IF ~check_permissions("ValveListCreateView", user)
           THEN NotAuthenticated("ValveListCreateView", "POST", user, motor_id, 0)
           ELSE IF ~ValveSerializer_is_valid(motor, FALSE)
           THEN /\ last' = Resp("ValveListCreateView", "POST", user, motor_id, 0,
                                NoValue, 400, {}, 0)
                /\ UNCHANGED store
           ELSE /\ valves' = valves \cup {[id |-> nextValve, motor |-> motor]}
                /\ nextValve' = nextValve + 1
                /\ last' = Resp("ValveListCreateView", "POST", user, motor_id, nextValve,
                                NoValue, 201, {nextValve}, 1)
                /\ UNCHANGED <<farms, motors, nextFarm, nextMotor>>

ValveRetrieve ==
    /\ last = NoResponse
    /\ \E user \in Callers, motor_id \in PathMotorIds, pk \in ValveIds :
        IF ~check_permissions("ValveDetailView", user)
        THEN NotAuthenticated("ValveDetailView", "GET", user, motor_id, pk)
        ELSE /\ last' = Resp("ValveDetailView", "GET", user, motor_id, pk, NoValue,
                             ValveDetailView_get_object(user, motor_id, pk),
                             IF ValveDetailView_get_object(user, motor_id, pk) = 200
                             THEN {pk} ELSE {}, 1)
             /\ UNCHANGED store

ValveUpdate ==
    /\ last = NoResponse
    /\ \E user \in Callers, motor_id \in PathMotorIds, pk \in ValveIds,
       motor \in MotorIds \cup {0} :
        LET method == IF motor = 0 THEN "PATCH" ELSE "PUT"
        IN  IF ~check_permissions("ValveDetailView", user)
            THEN NotAuthenticated("ValveDetailView", method, user, motor_id, pk)
            ELSE IF ValveDetailView_get_object(user, motor_id, pk) # 200
            THEN /\ last' = Resp("ValveDetailView", method, user, motor_id, pk, NoValue,
                                 ValveDetailView_get_object(user, motor_id, pk), {}, 1)
                 /\ UNCHANGED store
            ELSE IF ~ValveSerializer_is_valid(motor, motor = 0)
            THEN /\ last' = Resp("ValveDetailView", method, user, motor_id, pk, NoValue,
                                 400, {}, 1)
                 /\ UNCHANGED store
            ELSE /\ valves' = (valves \ {ValveOf(pk)}) \cup
                       {[id |-> pk,
                         motor |-> IF motor = 0 THEN ValveOf(pk).motor ELSE motor]}
                 /\ last' = Resp("ValveDetailView", method, user, motor_id, pk, NoValue,
                                 200, {pk}, 2)
                 /\ UNCHANGED <<farms, motors, nextFarm, nextMotor, nextValve>>

ValveDestroy ==
    /\ last = NoResponse
    /\ \E user \in Callers, motor_id \in PathMotorIds, pk \in ValveIds :
        IF ~check_permissions("ValveDetailView", user)
        THEN NotAuthenticated("ValveDetailView", "DELETE", user, motor_id, pk)
        ELSE IF ValveDetailView_get_object(user, motor_id, pk) # 200
        THEN /\ last' = Resp("ValveDetailView", "DELETE", user, motor_id, pk, NoValue,
                             ValveDetailView_get_object(user, motor_id, pk), {}, 1)
             /\ UNCHANGED store
        ELSE /\ valves' = valves \ {ValveOf(pk)}
             /\ last' = Resp("ValveDetailView", "DELETE", user, motor_id, pk, NoValue,
                             204, {}, 2)
             /\ UNCHANGED <<farms, motors, nextFarm, nextMotor, nextValve>>

\* The response is returned to the client and the next request is taken up.
Respond ==
    /\ last # NoResponse
    /\ last' = NoResponse
    /\ UNCHANGED store

\* --------------------------------------------------------------------- spec
Next ==
    \/ FarmList
    \/ FarmCreate
    \/ FarmRetrieve
    \/ FarmUpdate
    \/ FarmDestroy
    \/ MotorList
    \/ MotorCreate
    \/ MotorRetrieve
    \/ MotorUpdate
    \/ MotorDestroy
    \/ ValveList
    \/ ValveCreate
    \/ ValveRetrieve
    \/ ValveUpdate
    \/ ValveDestroy
    \/ Respond

Spec == Init /\ [][Next]_vars

\* The Farm endpoints alone.  No Motor or Valve handler writes a Farm row, so
\* the Farm rows and the answers to Farm requests are those of Spec.
NextFarm ==
    \/ FarmList
    \/ FarmCreate
    \/ FarmRetrieve
    \/ FarmUpdate
    \/ FarmDestroy
    \/ Respond

SpecFarm == Init /\ [][NextFarm]_vars

\* Referential integrity and unique primary keys, as the data store keeps them.
TypeOK ==
    /\ \A f \in farms : f.id \in FarmIds /\ f.owner \in Users
    /\ \A m \in motors : m.id \in MotorIds /\ m.farm \in Ids(farms)
    /\ \A v \in valves : v.id \in ValveIds /\ v.motor \in Ids(motors)
    /\ Cardinality(Ids(farms)) = Cardinality(farms)
    /\ Cardinality(Ids(motors)) = Cardinality(motors)
    /\ Cardinality(Ids(valves)) = Cardinality(valves)

\* ------------------------------------------------------------------ claims
Privileged(u) == role(u) \in {"admin", "manager"}

IsRequest(r, view, methods) ==
    r.view = view /\ r.method \in methods /\ r.caller \in Users

DetailMethods == {"GET", "PUT", "PATCH", "DELETE"}

\* C1: the Farm list answered to user U contains Farm F if and only if U is
\* admin or manager, or F's owner is U.
C1_FarmListRoleOrOwner ==
    IsRequest(last, "FarmListCreateView", {"GET"}) =>
        /\ last.status = 200
        /\ \A f \in farms :
              f.id \in last.body <=> (Privileged(last.caller) \/ f.owner = last.caller)

\* C2: a Farm created by a caller who is neither admin nor manager is owned by
\* the caller, whatever the payload's owner field holds.
C2_CreateOwnerForcedToCaller ==
    ( /\ IsRequest(last, "FarmListCreateView", {"POST"})
      /\ ~Privileged(last.caller)
      /\ last.status = 201 )
    => FarmOf(last.pk).owner = last.caller

\* C3: a Farm create by an admin or manager persists a Farm owned by the
\* payload's owner when the payload names one, and by the caller when it
\* names none.
C3_PrivilegedCreateOwner ==
    ( /\ IsRequest(last, "FarmListCreateView", {"POST"})
      /\ Privileged(last.caller) )
    => /\ last.status = 201
       /\ FarmOf(last.pk).owner =
              (IF last.owner # NoValue THEN last.owner ELSE last.caller)

\* C4: a retrieve, update or delete of an existing Farm by an admin or manager
\* is never answered not-found or forbidden, whoever owns the Farm.
C4_PrivilegedDetailAllowed ==
    ( /\ IsRequest(last, "FarmDetailView", DetailMethods)
      /\ Privileged(last.caller)
      /\ last.pk \in Ids(farms) )
    => last.status \notin {403, 404}

\* C5: a retrieve, update or delete of a Farm by a caller who is neither its
\* owner nor admin nor manager is answered not-found or forbidden and leaves
\* the Farm, and every other row, as it was.
C5_NonOwnerDeniedFarmUnchanged ==
    [][ ( /\ IsRequest(last', "FarmDetailView", DetailMethods)
          /\ ~Privileged(last'.caller)
          /\ last'.pk \in Ids(farms)
          /\ FarmOf(last'.pk).owner # last'.caller )
        => ( /\ last'.status \in {403, 404}
             /\ UNCHANGED store ) ]_vars

C5_Witness ==
    /\ IsRequest(last, "FarmDetailView", {"DELETE"})
    /\ ~Privileged(last.caller)
    /\ last.pk \in Ids(farms)
    /\ FarmOf(last.pk).owner # last.caller
    /\ last.status = 404

\* C6: the Motor list for farm_id answered to caller U, whatever U's role,
\* contains Motor M if and only if M's farm is farm_id and that farm's owner
\* is U.
C6_MotorListOwnerOnly ==
    IsRequest(last, "MotorListCreateView", {"GET"}) =>
        /\ last.status = 200
        /\ last.body \subseteq Ids(motors)
        /\ \A m \in motors :
              m.id \in last.body <=>
                  (m.farm = last.parent /\ FarmOf(m.farm).owner = last.caller)

\* An admin or manager lists the motors of another user's farm, which holds
\* a motor, and is shown none of them.
C6_Witness ==
    /\ IsRequest(last, "MotorListCreateView", {"GET"})
    /\ Privileged(last.caller)
    /\ \E m \in motors :
          m.farm = last.parent /\ FarmOf(m.farm).owner # last.caller
    /\ last.body = {}

\* C7: the Valve list for motor_id answered to caller U contains Valve V if
\* and only if V's motor is motor_id and the owner of that motor's farm is U.
C7_ValveListTransitiveOwner ==
    IsRequest(last, "ValveListCreateView", {"GET"}) =>
        /\ last.status = 200
        /\ last.body \subseteq Ids(valves)
        /\ \A v \in valves :
              v.id \in last.body <=>
                  ( /\ v.motor = last.parent
                    /\ FarmOf(MotorOf(v.motor).farm).owner = last.caller )

\* Both directions at once needs two callers; the witness is the owner's list
\* holding the valve found through motor and farm.
C7_Witness ==
    /\ IsRequest(last, "ValveListCreateView", {"GET"})
    /\ \E v \in valves :
          /\ v.motor = last.parent
          /\ FarmOf(MotorOf(v.motor).farm).owner = last.caller
          /\ last.body = {v.id}

\* C8: every Motor (Valve) create that persists a row was made by the owner
\* of the row's farm (of the farm of the row's motor).
C8_CreateByParentOwner ==
    /\ ( IsRequest(last, "MotorListCreateView", {"POST"}) /\ last.status = 201 )
       => FarmOf(MotorOf(last.pk).farm).owner = last.caller
    /\ ( IsRequest(last, "ValveListCreateView", {"POST"}) /\ last.status = 201 )
       => FarmOf(MotorOf(ValveOf(last.pk).motor).farm).owner = last.caller

DetailViews == {"FarmDetailView", "MotorDetailView", "ValveDetailView"}

Exists(view, pk) ==
    CASE view = "FarmDetailView" -> pk \in Ids(farms)
      [] view = "MotorDetailView" -> pk \in Ids(motors)
      [] view = "ValveDetailView" -> pk \in Ids(valves)

EffectiveOwner(view, pk) ==
    CASE view = "FarmDetailView" -> FarmOf(pk).owner
      [] view = "MotorDetailView" -> FarmOf(MotorOf(pk).farm).owner
      [] view = "ValveDetailView" -> FarmOf(MotorOf(ValveOf(pk).motor).farm).owner

\* The access policy's denial: not the owner and, for a Farm, not privileged.
MayNotAccess(view, user, pk) ==
    /\ EffectiveOwner(view, pk) # user
    /\ view = "FarmDetailView" => ~Privileged(user)

\* C9: a retrieve, update or delete of a Farm, Motor or Valve that exists but
\* is not the caller's is answered exactly as one of an id that does not
\* exist, not-found, and no such request on any of the three resource types
\* is answered forbidden.
C9_DenialUniformNotFound ==
    [][ ( last'.view \in DetailViews /\ last'.caller \in Users )
        => ( /\ last'.status # 403
             /\ ~Exists(last'.view, last'.pk) => last'.status = 404
             /\ ( /\ Exists(last'.view, last'.pk)
                  /\ MayNotAccess(last'.view, last'.caller, last'.pk) )
                => last'.status = 404 ) ]_vars

C9_Witness ==
    /\ last.view = "MotorDetailView"
    /\ last.caller \in Users
    /\ last.pk \in Ids(motors)
    /\ MotorOf(last.pk).farm = last.parent
    /\ FarmOf(last.parent).owner # last.caller
    /\ last.status = 404

\* C10: a request without a caller identity, on any endpoint, is rejected
\* before any query is made and leaves every row as it was.
C10_UnauthenticatedRejected ==
    [][ last'.caller = Anonymous
        => ( /\ last'.status \in NotAuthenticatedStatus
             /\ last'.queries = 0
             /\ last'.body = {}
             /\ UNCHANGED store ) ]_vars

C10_Witness ==
    /\ last.caller = Anonymous
    /\ last.view = "ValveListCreateView"
    /\ last.method = "POST"
    /\ last.status \in NotAuthenticatedStatus
    /\ valves = {}
    /\ motors # {}

====
